---- MODULE Spec2Model ----
(***************************************************************************)
(* Model of the DBMS-ASSISTANT Tauri backend:                              *)
(*   src-tauri/src/main.rs          startup (initialize_python, handlers)  *)
(*   src-tauri/src/commands.rs      AppState and the Tauri commands        *)
(*   src-tauri/src/python_bridge.rs the embedded-Python query bridge       *)
(*                                                                         *)
(* Every invocation of a command is a call p \in Calls with its own        *)
(* program counter pc[p]; the async commands run concurrently on the       *)
(* runtime's thread pool, so their steps interleave wherever the code      *)
(* releases a mutex, appends to the log file or waits for the stream.      *)
(*                                                                         *)
(* Texts are sequences of tokens (concatenation is \o, "" is <<>>);        *)
(* an Option<T> is a sequence of length 0 (None) or 1 (Some).              *)
(*                                                                         *)
(* Specifications:                                                         *)
(*   Spec        the commands running concurrently                         *)
(*   SpecBridge  one run_dba_query call, every choice of the environment   *)
(*   SpecBoot    initialize_python over the search paths it may find       *)
(*   SpecPrompt  the prompt over queries and stored turns with quotes      *)
(***************************************************************************)
EXTENDS Naturals, Sequences, FiniteSets

\* ---------------------------------------------------------------- bounds
NumCalls == 2       \* command invocations in flight in one run
MaxChunks == 3      \* chunks one agent stream may deliver in SpecBridge
MaxStartLen == 3    \* entries of the search path initialize_python starts from in SpecBoot
MaxTurns == 2       \* turns already stored when the query of SpecPrompt arrives

Calls == 1 .. NumCalls

\* ---------------------------------------------------------------- values
None == << >>
Some(x) == << x >>
IsSome(o) == o # << >>
Unwrap(o) == o[1]

EmptyText == << >>
Queries == { <<"q1">>, <<"q2">> }
\* ConnectionInfo (commands.rs:27-31); username is never read
ConnectionInfos ==
  { [server |-> "srvA", database |-> "db1"], [server |-> "srvB", database |-> "db2"] }

\* A streamed chunk: optional text, optional list of tool calls (its length)
Fragments == { EmptyText, <<"Hello, ">>, <<"world">> }
ToolCallCounts == { 2 }
Chunks ==
  [text : {None} \cup { Some(t) : t \in Fragments },
   tool_calls : {None} \cup { Some(n) : n \in ToolCallCounts }]

\* The three session resources, in the order of the async with header
Resources == << "credential", "mcp_tool", "agent" >>

Sentinel == << "No response from agent" >>
\* (mutant of McpNotFound: the path left out of the message)
McpNotFoundNoPath == << "Error: MCP server not found at " >>

\* f"Error: MCP server not found at {mcp_server_path}"
McpNotFound == << "Error: MCP server not found at ", "mcp_server_path" >>
ErrorText(e) == << "Error: ", e, "\n\nTraceback:\n" >>

\* initialize_python's directories
venv_path == ".venv"
site_packages == ".venv/lib/python3.13/site-packages"
parent_dir == "DBMS-ASSISTANT"
project_root == "project_root"

\* Entries of the ambient installation, and the path the interpreter starts with
AmbientEntries == { "stdlib", "ambient/site-packages" }
AmbientPath == << "stdlib", "ambient/site-packages" >>

VARIABLES
  py_init,               \* outcome of initialize_python in main
  is_connected,          \* AppState.is_connected
  server_name,           \* AppState.server_name      (Option)
  database_name,         \* AppState.database_name    (Option)
  conversation_history,  \* AppState.conversation_history: Seq of <<query, response>>
  log,                   \* agent_forensic.log: per call, the records it appended, in file order
  after_clear,           \* "no", or how the last clear_conversation ran when no
                         \* run_dba_query has started since: "quiet" (no query in
                         \* flight) or "racy" (some query in flight)
  pc,                    \* position of each call
  query,                 \* run_dba_query: the query argument
  history,               \* run_dba_query: the cloned history snapshot
  connection_info,       \* connect_database: the argument
  status,                \* get_connection_status: the ConnectionStatus being built
  entered,               \* run_query: context managers the async with has entered, in order
  released,              \* run_query: context managers exited, in order of release
  delivered,             \* chunks agent.run_stream has yielded to this call
  result_parts,          \* run_query: result_parts
  chunk_count,           \* run_query: chunk_count
  tool_call_count,       \* run_query: tool_call_count
  exc,                   \* run_query: the exception caught by except (Option)
  result,                \* the Python global result / Rust result
  locked,                \* the AppState mutexes some thread holds at this moment
  sys_path,              \* Python's sys.path
  sys_prefix,            \* Python's sys.prefix and sys.exec_prefix
  full_prompt,           \* run_query: full_prompt (Option; None before it is built)
  ret                    \* value the command returned to the host

conn == << is_connected, server_name, database_name >>
session == << entered, released >>
acc == << delivered, result_parts, chunk_count, tool_call_count >>
args == << query, history, connection_info >>
vars == << py_init, conn, conversation_history, log, after_clear, pc, args,
           status, session, acc, exc, result, ret, locked, sys_path, sys_prefix, full_prompt >>

\* ---------------------------------------------------------------- values returned
NoStatus == [is_connected |-> FALSE, server |-> None, database |-> None]
NoRet == [ok |-> FALSE, success |-> FALSE, message |-> "", data |-> None]
\* Ok(QueryResult { success: true, message, data: Some(result), .. })
OkQueryResult(r) ==
  [ok |-> TRUE, success |-> TRUE, message |-> "Query executed successfully", data |-> Some(r)]
\* Err(format!("Python error: {}", e))
ErrPython == [ok |-> FALSE, success |-> FALSE, message |-> "Python error", data |-> None]
ConnectedRet(ci) ==
  [ok |-> TRUE, success |-> TRUE, message |-> "Connected to", data |-> Some(<<ci.server, ci.database>>)]

\* ---------------------------------------------------------------- pure helpers
RECURSIVE JoinReversed(_)
\* (mutant of Join: the fragments in the opposite order)
JoinReversed(parts) ==
  IF parts = << >> THEN EmptyText ELSE JoinReversed(Tail(parts)) \o Head(parts)

RECURSIVE Join(_)
\* ''.join(parts)
Join(parts) == IF parts = << >> THEN EmptyText ELSE Head(parts) \o Join(Tail(parts))

\* Python truthiness of chunk.text: None and "" are falsy
Truthy(text) == IsSome(text) /\ Unwrap(text) # EmptyText

\* (mutant of ToolCalls: one per chunk that carries tool calls)
ToolCallsPresent(c) == IF IsSome(c.tool_calls) THEN 1 ELSE 0

\* len(chunk.tool_calls or []) when the chunk has the attribute, else nothing added
ToolCalls(c) == IF IsSome(c.tool_calls) THEN Unwrap(c.tool_calls) ELSE 0

\* (mutant of Answer: the join alone, no sentinel)
AnswerNoSentinel(parts) == Join(parts)

\* return ''.join(result_parts) if result_parts else "No response from agent"
Answer(parts) == IF parts # << >> THEN Join(parts) ELSE Sentinel

RECURSIVE Reverse(_)
Reverse(s) == IF s = << >> THEN << >> ELSE Append(Reverse(Tail(s)), Head(s))

\* (mutant of ExitOrder: the managers exited in the order they were entered)
ExitOrderForward(h) == h

\* Leaving the async with: __aexit__ of every entered manager, last entered first
ExitOrder(h) == Reverse(h)

\* (mutant of Push: the new turn replaces the stored ones)
PushOverwrites(h, q, r) == << << q, r >> >>

\* (mutant of Push: the new turn stored before the others)
PushFirst(h, q, r) == << << q, r >> >> \o h

\* (mutant of Push: the pair stored the wrong way round)
PushSwapped(h, q, r) == Append(h, << r, q >>)

\* conversation_history.push((query, result))
Push(h, q, r) == Append(h, << q, r >>)

\* (mutant of Clear: the most recent turn survives)
ClearKeepsLast(h) == IF h = << >> THEN h ELSE << h[Len(h)] >>

\* conversation_history.clear()
Clear(h) == << >>

\* (mutant of Dropped: the guard lives on after the statement)
GuardKept(l, m) == l

\* The MutexGuard that lock() returned is a temporary of the statement (or a
\* local of a command that returns at once): dropped, the mutex is free again
Dropped(l, m) == l \ { m }

\* ---------------------------------------------------------------- prompt assembly
\* format!("User: {}\nAssistant: {}\n", q, r)
Block(turn) == << "User: " >> \o turn[1] \o << "\nAssistant: " >> \o turn[2] \o << "\n" >>

RECURSIVE JoinBlocks(_)
\* python_bridge.rs:105-109: the blocks of the turns joined by "\n---\n"
JoinBlocks(h) ==
  IF h = << >> THEN EmptyText
  ELSE IF Len(h) = 1 THEN Block(h[1])
  ELSE Block(h[1]) \o << "\n---\n" >> \o JoinBlocks(Tail(h))

\* let history_str: String
HistoryStr(h) == JoinBlocks(h)

\* The Rust format! pastes query and history_str into the Python source
\* (python_bridge.rs:492). A text pasted between r''' and ''' is a literal of
\* that text unless it holds ''' or ends with a quote or a backslash: then
\* the source does not compile.
RawLiteralOk(text) ==
  /\ \A i \in DOMAIN text : text[i] # "'''"
  /\ text # << >> => text[Len(text)] \notin { "'", "\\" }

\* The query pasted into the f"""...""" literal of lines 158-164: three double
\* quotes end the literal and a lone brace is a syntax error
FStringOk(text) == \A i \in DOMAIN text : text[i] \notin { "\"\"\"", "{", "}" }

\* py.run_bound compiles the whole source before running any of it
Compiles(q, hs) == RawLiteralOk(hs) /\ RawLiteralOk(q) /\ FStringOk(q)

\* Evaluating the pasted query as part of the f-string: a replacement field
\* {x} names a variable run_query does not have (NameError)
FStringRaises(text) == \E i \in DOMAIN text : text[i] = "{x}"

\* ... and doubled braces are the escapes of single ones
FStringToken(t) ==
  IF t = "{{" THEN "{" ELSE IF t = "}}" THEN "}" ELSE t

FStringValue(text) == [i \in DOMAIN text |-> FStringToken(text[i])]

\* history.strip(): empty when the text holds white space only
StripIsEmpty(text) == \A i \in DOMAIN text : text[i] \in { " ", "\n" }

\* python_bridge.rs:153-166: full_prompt, or None when building it raises
FullPrompt(q, hs) ==
  IF ~StripIsEmpty(hs)
    THEN IF FStringRaises(q) THEN None
         ELSE Some(<< "Previous conversation:\n" >> \o hs \o << "\n\n---\nCurrent question: " >>
                     \o FStringValue(q)
                     \o << "\n\nPlease answer based on the context from our previous conversation." >>)
    ELSE Some(q)

\* ---------------------------------------------------------------- sys.path
\* sys.path.insert(0, e)
InsertFirst(path, e) == << e >> \o path

InPath(path, e) == \E i \in DOMAIN path : path[i] = e

RECURSIVE RemoveDupPaths(_)
\* importlib.reload(site) runs site.main() again, which starts by dropping
\* every repeated entry of sys.path (the first occurrence stays); the venv's
\* site-packages, which it would append, is in the path by then
RemoveDupPaths(path) ==
  IF path = << >> THEN << >>
  ELSE LET front == RemoveDupPaths(SubSeq(path, 1, Len(path) - 1))
           last == path[Len(path)] IN
       IF InPath(front, last) THEN front ELSE Append(front, last)

\* The activation script (python_bridge.rs:18-37)
ActivatedPath(path) ==
  RemoveDupPaths(IF ~InPath(path, site_packages) THEN InsertFirst(path, site_packages) ELSE path)

\* sys.path when initialize_python returns Ok (python_bridge.rs:42-51)
InitializedPath(path) ==
  InsertFirst(InsertFirst(ActivatedPath(path), parent_dir), project_root)

\* A record of the log file: which call wrote it, what kind, and a detail
Rec(p, kind, detail) == [call |-> p, kind |-> kind, detail |-> detail]

\* (mutant of Logged: the record written at the start of the file)
LoggedAtStart(l, ok, rec) == IF ok THEN << rec >> \o l ELSE l

\* Append to the log file when the sink works; a failed open writes nothing
Logged(l, ok, rec) == IF ok THEN Append(l, rec) ELSE l

\* ---------------------------------------------------------------- initial state
InitWith(path, stored) ==
  /\ py_init = "pending"
  /\ is_connected = FALSE
  /\ server_name = None
  /\ database_name = None
  /\ conversation_history = stored
  /\ log = [p \in Calls |-> << >>]
  /\ after_clear = "no"
  /\ pc = [p \in Calls |-> "idle"]
  /\ query = [p \in Calls |-> EmptyText]
  /\ history = [p \in Calls |-> << >>]
  /\ connection_info = [p \in Calls |-> None]
  /\ status = [p \in Calls |-> NoStatus]
  /\ entered = [p \in Calls |-> << >>]
  /\ released = [p \in Calls |-> << >>]
  /\ delivered = [p \in Calls |-> << >>]
  /\ result_parts = [p \in Calls |-> << >>]
  /\ chunk_count = [p \in Calls |-> 0]
  /\ tool_call_count = [p \in Calls |-> 0]
  /\ exc = [p \in Calls |-> None]
  /\ result = [p \in Calls |-> EmptyText]
  /\ ret = [p \in Calls |-> NoRet]
  /\ full_prompt = [p \in Calls |-> None]
  /\ sys_prefix = "ambient"
  /\ sys_path = path
  /\ locked = { }

\* The process starts with the search path of the ambient installation
Init == InitWith(AmbientPath, << >>)

\* state.<m>.lock().unwrap() and the statement that uses the guard: lock()
\* waits while another thread holds the mutex
Critical(m) ==
  /\ m \notin locked
  /\ locked' = Dropped(locked \cup { m }, m)

\* ---------------------------------------------------------------- main.rs
\* python_bridge.rs:6-55, one call of initialize_python. ok false: the
\* activation script does not run (py.run_bound returns the error at line 42)
\* and nothing is changed.
InitializePython(ok) ==
  /\ py_init' = IF ok THEN "ok" ELSE "failed"
  /\ sys_path' = IF ok THEN InitializedPath(sys_path) ELSE sys_path
  /\ sys_prefix' = IF ok THEN venv_path ELSE sys_prefix
  /\ UNCHANGED << conn, conversation_history, log, after_clear, pc, args, status,
                  session, acc, exc, result, ret, locked, full_prompt >>

\* main: let _ = python_bridge::initialize_python(); the PyResult is dropped
\* and the handlers are registered whatever it was.
Main(ok) ==
  /\ py_init = "pending"
  /\ InitializePython(ok)

\* The host can invoke commands once the builder runs, after initialize_python
Serving == py_init # "pending"

\* Invocations are numbered in the order in which the host makes them: call p
\* is the next one when it has not started and every call before it has
Invoked(p) ==
  /\ Serving
  /\ pc[p] = "idle"
  /\ \A r \in Calls : r < p => pc[r] # "idle"

\* ---------------------------------------------------------------- run_dba_query
\* A run_dba_query call between its history snapshot and its return
InFlight(p) == pc[p] \in { "py_run", "stream", "log_result", "push" }

\* commands.rs:57-63 and python_bridge.rs:58-87: lock, clone the history, unlock;
\* then the bridge appends the query-received record (if let Ok(..) skips a
\* failed open).
RunDbaQuery(p, q, sink_ok) ==
  /\ Invoked(p)
  /\ query' = [query EXCEPT ![p] = q]
  /\ history' = [history EXCEPT ![p] = conversation_history]
  /\ after_clear' = "no"
  /\ log' = [log EXCEPT ![p] =
       Logged(@, sink_ok,
              Rec(p, "INCOMING QUERY", [query |-> q, history |-> conversation_history]))]
  /\ pc' = [pc EXCEPT ![p] = "py_run"]
  /\ UNCHANGED << py_init, conn, conversation_history, connection_info, status,
                  session, acc, exc, result, ret >>
  /\ Critical("conversation_history")
  /\ UNCHANGED sys_path
  /\ UNCHANGED sys_prefix
  /\ UNCHANGED full_prompt

\* python_bridge.rs:471-473 reached from inside the async with: the managers
\* entered so far (h) are exited, then except builds the "Error:" text.
Raise(p, h, e) ==
  /\ entered' = [entered EXCEPT ![p] = h]
  /\ released' = [released EXCEPT ![p] = ExitOrder(h)]
  /\ exc' = [exc EXCEPT ![p] = Some(e)]
  /\ result' = [result EXCEPT ![p] = ErrorText(e)]
  /\ pc' = [pc EXCEPT ![p] = "log_result"]

\* python_bridge.rs:89-439 with 495: py.run_bound compiles the source that
\* format! built, executes the module top level and run_query up to the first
\* read of the stream.
\*  - A source that does not compile, or an exception outside run_query's try
\*    (a failed import, the f-string of the prompt raising) is a PyErr, which
\*    run_dba_query turns into Err (commands.rs:65) and returns at once.
\*  - A missing MCP server is an early return of a text, before the prompt
\*    is built and before the try.
\*  - The async with enters credential, mcp_tool and agent in this order;
\*    n is the number entered before one raises (Len(Resources): none raises).
\*  - The streaming-start record is written inside the try: a failing open raises.
PyRun(p, imports_ok, mcp_exists, n, sink_ok) ==
  /\ pc[p] = "py_run"
  /\ LET hs == HistoryStr(history[p])
         runs == Compiles(query[p], hs) /\ imports_ok
         prompt == IF runs /\ mcp_exists THEN FullPrompt(query[p], hs) ELSE None IN
     /\ full_prompt' = [full_prompt EXCEPT ![p] = prompt]
     /\ IF ~runs \/ (mcp_exists /\ prompt = None)
          THEN /\ ret' = [ret EXCEPT ![p] = ErrPython]
               /\ pc' = [pc EXCEPT ![p] = "done"]
               /\ UNCHANGED << session, exc, result, log >>
        ELSE IF ~mcp_exists
          THEN /\ result' = [result EXCEPT ![p] = McpNotFound]
               /\ pc' = [pc EXCEPT ![p] = "log_result"]
               /\ UNCHANGED << session, exc, ret, log >>
        ELSE IF n < Len(Resources)
          THEN /\ Raise(p, SubSeq(Resources, 1, n), Resources[n + 1])
               /\ UNCHANGED << ret, log >>
        ELSE IF ~sink_ok
          THEN /\ Raise(p, Resources, "OSError")
               /\ UNCHANGED << ret, log >>
          ELSE /\ entered' = [entered EXCEPT ![p] = Resources]
               /\ log' = [log EXCEPT ![p] =
                            Append(@, Rec(p, "AGENT STREAMING STARTED", Unwrap(prompt)))]
               /\ pc' = [pc EXCEPT ![p] = "stream"]
               /\ UNCHANGED << released, exc, result, ret >>
  /\ UNCHANGED << py_init, conn, conversation_history, after_clear, args, status, acc >>
  /\ UNCHANGED locked
  /\ UNCHANGED sys_path
  /\ UNCHANGED sys_prefix

\* python_bridge.rs:441-462: one iteration of async for chunk in agent.run_stream.
\* sink is "ok", or the open that fails: "raw" (line 443) or "text" (line 459).
StreamChunk(p, c, sink, cap) ==
  /\ pc[p] = "stream"
  /\ Len(delivered[p]) < cap
  /\ sink = "text" => Truthy(c.text)
  /\ delivered' = [delivered EXCEPT ![p] = Append(@, c)]
  /\ IF sink = "raw"
       THEN /\ Raise(p, entered[p], "OSError")
            /\ UNCHANGED << log, result_parts, chunk_count, tool_call_count >>
       ELSE /\ tool_call_count' = [tool_call_count EXCEPT ![p] = @ + ToolCalls(c)]
            /\ IF Truthy(c.text)
                 THEN /\ chunk_count' = [chunk_count EXCEPT ![p] = @ + 1]
                      /\ result_parts' = [result_parts EXCEPT ![p] = Append(@, Unwrap(c.text))]
                 ELSE UNCHANGED << chunk_count, result_parts >>
            /\ LET raw == Append(log[p],
                              Rec(p, "RAW CHUNK", [n |-> chunk_count[p] + 1, chunk |-> c])) IN
               IF ~Truthy(c.text)
                 THEN /\ log' = [log EXCEPT ![p] = raw]
                      /\ UNCHANGED << session, exc, result, pc >>
               ELSE IF sink = "text"
                 THEN /\ log' = [log EXCEPT ![p] = raw]
                      /\ Raise(p, entered[p], "OSError")
                 ELSE /\ log' = [log EXCEPT ![p] =
                                   Append(raw, Rec(p, "TEXT CHUNK", chunk_count[p] + 1))]
                      /\ UNCHANGED << session, exc, result, pc >>
  /\ UNCHANGED << py_init, conn, conversation_history, after_clear, args, status, ret >>
  /\ UNCHANGED locked
  /\ UNCHANGED sys_path
  /\ UNCHANGED sys_prefix
  /\ UNCHANGED full_prompt

\* python_bridge.rs:441 raising: the agent, the tool server or the network failed
StreamRaise(p) ==
  /\ pc[p] = "stream"
  /\ Raise(p, entered[p], "AgentException")
  /\ UNCHANGED << py_init, conn, conversation_history, log, after_clear, args, status,
                  acc, ret >>
  /\ UNCHANGED locked
  /\ UNCHANGED sys_path
  /\ UNCHANGED sys_prefix
  /\ UNCHANGED full_prompt

\* python_bridge.rs:464-470: the stream is exhausted; completion marker (inside
\* the try), the async with exits, the answer is built from result_parts
StreamEnd(p, sink_ok) ==
  /\ pc[p] = "stream"
  /\ IF sink_ok
       THEN /\ log' = [log EXCEPT ![p] =
                 Append(@, Rec(p, "STREAMING COMPLETE", tool_call_count[p]))]
            /\ released' = [released EXCEPT ![p] = ExitOrder(entered[p])]
            /\ result' = [result EXCEPT ![p] = Answer(result_parts[p])]
            /\ pc' = [pc EXCEPT ![p] = "log_result"]
            /\ UNCHANGED << entered, exc >>
       ELSE /\ Raise(p, entered[p], "OSError")
            /\ UNCHANGED log
  /\ UNCHANGED << py_init, conn, conversation_history, after_clear, args, status,
                  acc, ret >>
  /\ UNCHANGED locked
  /\ UNCHANGED sys_path
  /\ UNCHANGED sys_prefix
  /\ UNCHANGED full_prompt

\* A text longer than the 200 bytes of the Rust previews: in this model the
\* texts that carry a traceback
ExceedsPreview(r) == \E i \in DOMAIN r : r[i] = "\n\nTraceback:\n"

\* python_bridge.rs:478-491: try: write the result record; except: pass.
\* python_bridge.rs:498-515: extract result, log it (if let Ok), return Ok(result).
\* The previews &result[..200] and &result[result.len()-200..] index bytes: when
\* the text is longer than 200 bytes and one of the two offsets falls inside
\* a multi-byte character (cut_ok false), the slice panics after the header
\* of the record was written, and the call never returns.
LogResult(p, py_sink_ok, rust_sink_ok, cut_ok) ==
  /\ pc[p] = "log_result"
  /\ log' = [log EXCEPT ![p] =
       Logged(Logged(@, py_sink_ok, Rec(p, "PYTHON RESULT", Len(result[p]))),
              rust_sink_ok, Rec(p, "RUST RECEIVED RESULT", Len(result[p])))]
  /\ pc' = [pc EXCEPT ![p] =
       IF rust_sink_ok /\ ExceedsPreview(result[p]) /\ ~cut_ok THEN "panicked" ELSE "push"]
  /\ UNCHANGED << py_init, conn, conversation_history, after_clear, args, status,
                  session, acc, exc, result, ret >>
  /\ UNCHANGED locked
  /\ UNCHANGED sys_path
  /\ UNCHANGED sys_prefix
  /\ UNCHANGED full_prompt

\* commands.rs:68-78: lock, push (query, result), unlock, return Ok(QueryResult)
SaveAndReturn(p) ==
  /\ pc[p] = "push"
  /\ conversation_history' = Push(conversation_history, query[p], result[p])
  /\ ret' = [ret EXCEPT ![p] = OkQueryResult(result[p])]
  /\ pc' = [pc EXCEPT ![p] = "done"]
  /\ UNCHANGED << py_init, conn, log, after_clear, args, status, session, acc,
                  exc, result >>
  /\ Critical("conversation_history")
  /\ UNCHANGED sys_path
  /\ UNCHANGED sys_prefix
  /\ UNCHANGED full_prompt

\* ---------------------------------------------------------------- clear_conversation
\* commands.rs:82-85: a synchronous command, one critical section
ClearConversation ==
  /\ Serving
  /\ conversation_history' = Clear(conversation_history)
  /\ after_clear' = IF \E p \in Calls : InFlight(p) THEN "racy" ELSE "quiet"
  /\ UNCHANGED << py_init, conn, log, pc, args, status, session, acc, exc, result, ret >>
  /\ Critical("conversation_history")
  /\ UNCHANGED sys_path
  /\ UNCHANGED sys_prefix
  /\ UNCHANGED full_prompt

\* ---------------------------------------------------------------- connect_database
\* a connect_database that leaves the flag as it finds it
ConnectedFlagKept(old) == old

\* commands.rs:95: the value stored in is_connected, whatever it was
ConnectedFlag(old) == TRUE

\* commands.rs:95: *state.is_connected.lock().unwrap() = true
ConnectSetFlag(p, ci) ==
  /\ Invoked(p)
  /\ connection_info' = [connection_info EXCEPT ![p] = Some(ci)]
  /\ is_connected' = ConnectedFlag(is_connected)
  /\ pc' = [pc EXCEPT ![p] = "connect_server"]
  /\ UNCHANGED << py_init, server_name, database_name, conversation_history, log,
                  after_clear, query, history, status, session, acc, exc, result, ret >>
  /\ Critical("is_connected")
  /\ UNCHANGED sys_path
  /\ UNCHANGED sys_prefix
  /\ UNCHANGED full_prompt

\* commands.rs:96: *state.server_name.lock().unwrap() = Some(server)
ConnectSetServer(p) ==
  /\ pc[p] = "connect_server"
  /\ server_name' = Some(Unwrap(connection_info[p]).server)
  /\ pc' = [pc EXCEPT ![p] = "connect_database"]
  /\ UNCHANGED << py_init, is_connected, database_name, conversation_history, log,
                  after_clear, args, status, session, acc, exc, result, ret >>
  /\ Critical("server_name")
  /\ UNCHANGED sys_path
  /\ UNCHANGED sys_prefix
  /\ UNCHANGED full_prompt

\* commands.rs:97-102: *state.database_name.lock().unwrap() = Some(database); Ok(..)
ConnectSetDatabase(p) ==
  /\ pc[p] = "connect_database"
  /\ database_name' = Some(Unwrap(connection_info[p]).database)
  /\ ret' = [ret EXCEPT ![p] = ConnectedRet(Unwrap(connection_info[p]))]
  /\ pc' = [pc EXCEPT ![p] = "done"]
  /\ UNCHANGED << py_init, is_connected, server_name, conversation_history, log,
                  after_clear, args, status, session, acc, exc, result >>
  /\ Critical("database_name")
  /\ UNCHANGED sys_path
  /\ UNCHANGED sys_prefix
  /\ UNCHANGED full_prompt

\* ---------------------------------------------------------------- get_connection_status
\* commands.rs:108: is_connected: *state.is_connected.lock().unwrap()
StatusReadFlag(p) ==
  /\ Invoked(p)
  /\ status' = [status EXCEPT ![p].is_connected = is_connected]
  /\ pc' = [pc EXCEPT ![p] = "status_server"]
  /\ UNCHANGED << py_init, conn, conversation_history, log, after_clear, args,
                  session, acc, exc, result, ret >>
  /\ Critical("is_connected")
  /\ UNCHANGED sys_path
  /\ UNCHANGED sys_prefix
  /\ UNCHANGED full_prompt

\* commands.rs:109: server: state.server_name.lock().unwrap().clone()
StatusReadServer(p) ==
  /\ pc[p] = "status_server"
  /\ status' = [status EXCEPT ![p].server = server_name]
  /\ pc' = [pc EXCEPT ![p] = "status_database"]
  /\ UNCHANGED << py_init, conn, conversation_history, log, after_clear, args,
                  session, acc, exc, result, ret >>
  /\ Critical("server_name")
  /\ UNCHANGED sys_path
  /\ UNCHANGED sys_prefix
  /\ UNCHANGED full_prompt

\* commands.rs:110-111: database: state.database_name.lock().unwrap().clone(); return
StatusReadDatabase(p) ==
  /\ pc[p] = "status_database"
  /\ status' = [status EXCEPT ![p].database = database_name]
  /\ pc' = [pc EXCEPT ![p] = "done"]
  /\ UNCHANGED << py_init, conn, conversation_history, log, after_clear, args,
                  session, acc, exc, result, ret >>
  /\ Critical("database_name")
  /\ UNCHANGED sys_path
  /\ UNCHANGED sys_prefix
  /\ UNCHANGED full_prompt

\* ---------------------------------------------------------------- specifications
Sinks == { "ok", "raw", "text" }

\* The answer the agent streams to every query of the concurrent specification
\* (the stream may still end or raise before it is complete)
ConcStream == << [text |-> Some(<<"world">>), tool_calls |-> Some(2)] >>
ConcChunkSet == { ConcStream[i] : i \in DOMAIN ConcStream }

\* One step of a run_dba_query call, with the environment's choices drawn
\* from the given sets: B for the imports, the MCP path and the acquisitions,
\* and the byte layout of the result, L for the log sink of the swallowed
\* writes, S for the sink of the writes inside the try, C for the chunks, cap
\* for the stream's length.
QueryStep(p, B, L, S, C, cap) ==
  \/ \E q \in Queries, ok \in L : RunDbaQuery(p, q, ok)
  \/ \E i \in BOOLEAN, m \in B, n \in { k \in 0 .. Len(Resources) : k = Len(Resources) \/ FALSE \in B },
        s \in S : PyRun(p, i, m, n, s = "ok")
  \/ \E c \in C, s \in S : StreamChunk(p, c, s, cap)
  \/ StreamRaise(p)
  \/ \E s \in S : StreamEnd(p, s = "ok")
  \/ \E py, rs \in L, cut \in B : LogResult(p, py, rs, cut)
  \/ SaveAndReturn(p)

ConnectStep(p) ==
  \/ \E ci \in ConnectionInfos : ConnectSetFlag(p, ci)
  \/ ConnectSetServer(p)
  \/ ConnectSetDatabase(p)

StatusStep(p) ==
  \/ StatusReadFlag(p)
  \/ StatusReadServer(p)
  \/ StatusReadDatabase(p)

\* The commands running concurrently; the log sink works
Next ==
  \/ \E ok \in BOOLEAN : Main(ok)
  \/ \E p \in Calls : QueryStep(p, {TRUE}, {TRUE}, {"ok"}, ConcChunkSet, Len(ConcStream))
  \/ ClearConversation
  \/ \E p \in Calls : ConnectStep(p)
  \/ \E p \in Calls : StatusStep(p)

Spec == Init /\ [][Next]_vars

\* One run_dba_query call with every choice of the environment, after a
\* successful initialize_python
NextBridge ==
  \/ Main(TRUE)
  \/ QueryStep(1, BOOLEAN, BOOLEAN, Sinks, Chunks, MaxChunks)

SpecBridge == Init /\ [][NextBridge]_vars

\* The steps of a run_dba_query call that are the program's own: the runtime
\* keeps running the call's task, so one that can be taken is taken. The
\* steps of the stream (a chunk, its end, an exception) are the agent's
\* and nothing obliges it to take them.
BridgeProgress(p) ==
  \/ \E i, m, s \in BOOLEAN, n \in 0 .. Len(Resources) : PyRun(p, i, m, n, s)
  \/ \E py, rs, cut \in BOOLEAN : LogResult(p, py, rs, cut)
  \/ SaveAndReturn(p)

SpecBridgeFair == SpecBridge /\ WF_vars(BridgeProgress(1))

\* initialize_python as a function of the search path it finds: every path
\* of distinct entries up to MaxStartLen that holds the standard library, and
\* any number of calls
PathEntries == AmbientEntries \cup { site_packages, parent_dir, project_root }

StartPaths ==
  { path \in UNION { [1 .. n -> PathEntries] : n \in 1 .. MaxStartLen } :
      /\ InPath(path, "stdlib")
      /\ \A i, j \in DOMAIN path : i # j => path[i] # path[j] }

InitBoot == \E path \in StartPaths : InitWith(path, << >>)

NextBoot == \E ok \in BOOLEAN : InitializePython(ok)

SpecBoot == InitBoot /\ [][NextBoot]_vars

\* The prompt as a function of the query and of the stored history: one
\* run_dba_query call up to the first read of its stream, imports, MCP server,
\* session and log all working, over queries and stored turns that hold quotes
\* and braces
PromptQueries ==
  Queries \cup { << "name = 'Bob", "'" >>, << "'''" >>, << "{x}" >>, << "{{", "id", "}}" >> }

Turns ==
  { << <<"q1">>, <<"world">> >>, << <<"{x}">>, <<"Hello, ">> >>, << <<"q2">>, <<"'''">> >> }

PromptHistories == UNION { [1 .. n -> Turns] : n \in 0 .. MaxTurns }

InitPrompt == \E h \in PromptHistories : InitWith(AmbientPath, h)

NextPrompt ==
  \/ Main(TRUE)
  \/ \E q \in PromptQueries : RunDbaQuery(1, q, TRUE)
  \/ PyRun(1, TRUE, TRUE, Len(Resources), TRUE)

SpecPrompt == InitPrompt /\ [][NextPrompt]_vars

\* ================================================================ claims
Returned(p) == pc[p] \in { "log_result", "push", "done" }

\* The step in which call p returns from run_dba_query
Returns(p) == pc[p] \in { "py_run", "push" } /\ pc'[p] = "done"

\* ---------------------------------------------------------------- C1
\* C1: a run_dba_query call during which an exception was raised (in the
\* acquisition of the session or while the stream was consumed) returns Err
\* and leaves conversation_history as it was.
C1_ExceptionReturnsErr ==
  [][\A p \in Calls :
        (Returns(p) /\ IsSome(exc[p]))
          => (~ret'[p].ok /\ conversation_history' = conversation_history)]_vars

\* ---------------------------------------------------------------- C2
\* C2: a run_dba_query call that returns Ok appended exactly one turn, the
\* submitted query with the text returned in data, and success is true; a
\* call that returns Err appended nothing; no other step of the call touches
\* the stored history.
C2_OkAppendsOneTurn ==
  [][\A p \in Calls :
        /\ Returns(p) =>
             IF ret'[p].ok
               THEN /\ ret'[p].success
                    /\ IsSome(ret'[p].data)
                    /\ conversation_history' =
                         Append(conversation_history, << query[p], Unwrap(ret'[p].data) >>)
               ELSE conversation_history' = conversation_history
        /\ (InFlight(p) /\ ~Returns(p) /\ << pc[p], delivered[p] >> # << pc'[p], delivered'[p] >>)
             => conversation_history' = conversation_history]_vars

\* One call has returned Ok with its turn stored, another has returned Err
C2_Witness ==
  \E p, q \in Calls :
    /\ pc[p] = "done" /\ ret[p].ok /\ query[p] \in Queries
    /\ \E i \in DOMAIN conversation_history :
         conversation_history[i] = << query[p], Unwrap(ret[p].data) >>
    /\ pc[q] = "done" /\ ret[q] = ErrPython

\* ---------------------------------------------------------------- C3
\* C3: a failure of the log sink never changes the answer of a query: no call
\* ends with the error text of a failed log write as its result, and none
\* returns it to the host.  (OSError is raised by the log opens only.)
C3_LogFailureHarmless ==
  \A p \in Calls :
    /\ Returned(p) => (exc[p] # Some("OSError") /\ result[p] # ErrorText("OSError"))
    /\ (pc[p] = "done" /\ ret[p].ok) => ret[p].data # Some(ErrorText("OSError"))

\* ---------------------------------------------------------------- C4
\* The ConnectionStatus values that are the initial state or the complete
\* triple of one connect_database call
WholeTriples ==
  { NoStatus } \cup
  { [is_connected |-> TRUE, server |-> Some(ci.server), database |-> Some(ci.database)] :
      ci \in ConnectionInfos }

\* C4: every ConnectionStatus returned by get_connection_status is the initial
\* state or the triple of one connect_database call, and so is the stored
\* state whenever no connect_database is running.
C4_TripleUpdatedTogether ==
  /\ \A p \in Calls : pc[p] = "done" => status[p] \in WholeTriples
  /\ (\A p \in Calls : pc[p] \notin { "connect_server", "connect_database" })
       => [is_connected |-> is_connected, server |-> server_name,
           database |-> database_name] \in WholeTriples

\* ---------------------------------------------------------------- C5
\* The chunk carries a non-empty text fragment
HasFragment(c) == c.text # None /\ c.text # Some(EmptyText)

RECURSIVE FragmentsInOrder(_)
\* The text fragments of a sequence of chunks, concatenated in delivery order
FragmentsInOrder(cs) ==
  IF cs = << >> THEN EmptyText
  ELSE (IF HasFragment(Head(cs)) THEN Unwrap(Head(cs).text) ELSE EmptyText)
         \o FragmentsInOrder(Tail(cs))

\* The call's stream was opened and run_query left the try without an exception
Completed(p) == Returned(p) /\ exc[p] = None /\ entered[p] = Resources

\* C5: when the stream completes without an exception and delivered at least
\* one non-empty fragment, the answer is the concatenation of the fragments in
\* the order of delivery; chunks with empty or absent text contribute nothing.
C5_AnswerIsConcatenation ==
  \A p \in Calls :
    (Completed(p) /\ \E i \in DOMAIN delivered[p] : HasFragment(delivered[p][i]))
      => /\ result[p] = FragmentsInOrder(delivered[p])
         /\ pc[p] = "done" => ret[p].data = Some(FragmentsInOrder(delivered[p]))

\* The stream ["Hello, ", "world", ""] has been answered with "Hello, world"
C5_Witness ==
  \E p \in Calls :
    /\ pc[p] = "done" /\ Completed(p)
    /\ Len(delivered[p]) = 3
    /\ delivered[p][1].text = Some(<<"Hello, ">>)
    /\ delivered[p][2].text = Some(<<"world">>)
    /\ delivered[p][3].text = Some(EmptyText)
    /\ ret[p].data = Some(<<"Hello, ", "world">>)

\* ---------------------------------------------------------------- C6
\* C6: when the stream completes without an exception and no text fragment was
\* received, the answer is the sentinel, and it is returned as a successful
\* answer and stored as the call's turn.
C6_SentinelWhenNoText ==
  \A p \in Calls :
    (Completed(p) /\ \A i \in DOMAIN delivered[p] : ~HasFragment(delivered[p][i]))
      => /\ result[p] = Sentinel
         /\ pc[p] = "done" =>
              /\ ret[p] = OkQueryResult(Sentinel)
              /\ conversation_history = Append(history[p], << query[p], Sentinel >>)

\* A stream of chunks without text (a tool call, an empty text) was answered
\* with the sentinel
C6_Witness ==
  \E p \in Calls :
    /\ pc[p] = "done" /\ Completed(p)
    /\ Len(delivered[p]) = 2
    /\ delivered[p][1] = [text |-> None, tool_calls |-> Some(2)]
    /\ delivered[p][2].text = Some(EmptyText)
    /\ ret[p].data = Some(Sentinel)

\* ---------------------------------------------------------------- C7
\* The calls whose turns make up the stored history, one call per position
TurnOwners(h) ==
  { f \in [DOMAIN h -> Calls] :
      /\ \A i, j \in DOMAIN h : i # j => f[i] # f[j]
      /\ \A i \in DOMAIN h :
           /\ pc[f[i]] = "done" /\ ret[f[i]].ok
           /\ h[i] = << query[f[i]], result[f[i]] >> }

\* C7: the append is atomic.  The stored history is at all times made of whole
\* turns of distinct completed calls, each pairing the call's query with its
\* own answer; and a step changes the history only by clearing it or by
\* appending the turn of the one call that returns, keeping every stored turn.
C7_AppendAtomic ==
  /\ [](TurnOwners(conversation_history) # {})
  /\ [][/\ \A p \in Calls :
             (pc[p] = "push" /\ pc'[p] = "done")
               => conversation_history' =
                    Append(conversation_history, << query[p], result[p] >>)
        /\ conversation_history' # conversation_history
             => \/ conversation_history' = << >>
                \/ \E p \in Calls : pc[p] = "push" /\ pc'[p] = "done"]_vars

\* Two calls that ran concurrently have both completed; both turns are stored
C7_Witness ==
  /\ Len(conversation_history) = 2
  /\ \E p, q \in Calls :
       /\ p # q
       /\ pc[p] = "done" /\ pc[q] = "done"
       /\ history[p] = << >> /\ history[q] = << >>
       /\ query[p] # query[q] /\ result[p] # result[q]
       /\ conversation_history = << << query[p], result[p] >>, << query[q], result[q] >> >>

\* ---------------------------------------------------------------- C8
\* The step in which call p starts run_dba_query and takes its snapshot
Starts(p) == pc[p] = "idle" /\ pc'[p] = "py_run"

\* C8 as claimed: the snapshot of the next run_dba_query started after a clear
\* is empty, also when queries were in flight when the clear ran.
C8_NextSnapshotEmpty ==
  [][\A p \in Calls : (after_clear # "no" /\ Starts(p)) => history'[p] = << >>]_vars

\* C8 as amended: the store is empty right after clear_conversation, and the
\* snapshot of the next run_dba_query started after the clear is empty when no
\* query was in flight when the clear ran.
C8_ClearEmptiesStore ==
  [][/\ (after_clear' # "no" /\ pc' = pc /\ py_init' = py_init /\ delivered' = delivered)
          => conversation_history' = << >>
     /\ \A p \in Calls : (after_clear = "quiet" /\ Starts(p)) => history'[p] = << >>]_vars

\* A clear has emptied a store that held a turn, no query in flight, none started since
C8_Witness ==
  /\ after_clear = "quiet"
  /\ conversation_history = << >>
  /\ \E p \in Calls : pc[p] = "done" /\ ret[p].ok /\ query[p] \in Queries

\* ---------------------------------------------------------------- C9
\* C9: on every exit path of run_query the managers that were entered are
\* exited once each, the last entered first, and nothing else is exited;
\* while the stream is read all three are held; before the async with none is.
C9_ReleasedInReverse ==
  \A p \in Calls :
    /\ pc[p] \in { "idle", "py_run" } => (entered[p] = << >> /\ released[p] = << >>)
    /\ pc[p] = "stream" => (entered[p] = Resources /\ released[p] = << >>)
    /\ (Returned(p) \/ pc[p] = "done") =>
         /\ entered[p] = SubSeq(Resources, 1, Len(entered[p]))
         /\ Len(released[p]) = Len(entered[p])
         /\ \A i \in DOMAIN released[p] : released[p][i] = entered[p][Len(entered[p]) + 1 - i]

\* An exception in the middle of the stream: all three were released, agent first
C9_Witness ==
  \E p \in Calls :
    /\ pc[p] = "done"
    /\ exc[p] = Some("AgentException")
    /\ delivered[p] # << >>
    /\ released[p] = << "agent", "mcp_tool", "credential" >>

\* ---------------------------------------------------------------- C10
\* C10: when initialize_python failed at startup no run_dba_query proceeds to
\* the orchestrator: none reads a stream, none gets a result.
C10_FailedInitRefusesQueries ==
  py_init = "failed" =>
    \A p \in Calls :
      /\ pc[p] \notin { "stream", "log_result", "push" }
      /\ ~(query[p] \in Queries /\ ret[p].ok)

\* ---------------------------------------------------------------- C11
\* C11: a call in which the acquisition of the session or the consumption of
\* the stream raised an exception ends with the text "Error: <message>" and a
\* traceback as its result; the bridge neither panics nor returns Err on it.
C11_FaultBecomesResult ==
  \A p \in Calls :
    IsSome(exc[p]) =>
      /\ Len(result[p]) = 3
      /\ result[p][1] = "Error: "
      /\ result[p][2] = Unwrap(exc[p])
      /\ result[p][3] = "\n\nTraceback:\n"
      /\ pc[p] # "panicked"
      /\ ret[p] # ErrPython

\* ---------------------------------------------------------------- C12
\* A call whose run_query returned without an exception and without having
\* entered any session resource: the MCP server path did not exist
McpMissing(p) ==
  /\ pc[p] \in { "log_result", "push", "done" }
  /\ ret[p] # ErrPython
  /\ exc[p] = None
  /\ entered[p] = << >>

Rank(kind) ==
  CASE kind = "INCOMING QUERY" -> 0
    [] kind = "AGENT STREAMING STARTED" -> 1
    [] kind = "RAW CHUNK" -> 2
    [] kind = "TEXT CHUNK" -> 2
    [] kind = "STREAMING COMPLETE" -> 3
    [] kind = "PYTHON RESULT" -> 4
    [] kind = "RUST RECEIVED RESULT" -> 5

IsRawChunk(rec) == rec.kind = "RAW CHUNK"

\* The records of call p, in file order, respect the order of the query's life
RecordsInOrder(p) ==
  LET l == log[p]
      raws == SelectSeq(l, IsRawChunk) IN
  /\ \A i \in 1 .. Len(l) - 1 :
       LET a == Rank(l[i].kind)
           b == Rank(l[i + 1].kind) IN
       a < b \/ (a = b /\ a = 2)
  /\ \A i \in DOMAIN l :
       /\ l[i].call = p
       /\ l[i].kind = "INCOMING QUERY" =>
            /\ i = 1
            /\ l[i].detail = [query |-> query[p], history |-> history[p]]
       /\ l[i].kind = "TEXT CHUNK" =>
            /\ i > 1
            /\ l[i - 1].kind = "RAW CHUNK"
            /\ Truthy(l[i - 1].detail.chunk.text)
  /\ Len(raws) <= Len(delivered[p])
  /\ Len(raws) >= Len(delivered[p]) - 1
  /\ \A k \in DOMAIN raws : raws[k].detail.chunk = delivered[p][k]

C15_InitializeIdempotent ==
  [][(py_init = "ok" /\ py_init' = "ok")
        => (sys_path' = sys_path /\ sys_prefix' = sys_prefix)]_vars

\* ---------------------------------------------------------------- C20
\* C20: after a successful initialize_python the venv's site-packages comes
\* before every entry of the ambient installation in sys.path, whatever the
\* path was before (site-packages already in it, at a later position,
\* included), and the project directory and its parent are both in the path.
C20_VenvPrecedesAmbient ==
  py_init = "ok" =>
    /\ InPath(sys_path, site_packages)
    /\ \A i, j \in DOMAIN sys_path :
         (sys_path[i] = site_packages /\ sys_path[j] \in AmbientEntries) => i < j
    /\ InPath(sys_path, parent_dir)
    /\ InPath(sys_path, project_root)

\* ---------------------------------------------------------------- C16
RECURSIVE FindFrom(_, _, _)
\* The first position from k on at which piece occurs in text, 0 if none
FindFrom(text, piece, k) ==
  IF k + Len(piece) - 1 > Len(text) THEN 0
  ELSE IF SubSeq(text, k, k + Len(piece) - 1) = piece THEN k
  ELSE FindFrom(text, piece, k + 1)

RECURSIVE InOrderFrom(_, _, _)
\* The pieces occur in text from k on, one after the other in this order
InOrderFrom(text, pieces, k) ==
  IF pieces = << >> THEN TRUE
  ELSE LET i == FindFrom(text, Head(pieces), k) IN
       i # 0 /\ InOrderFrom(text, Tail(pieces), i + Len(Head(pieces)))

\* "User: <q>\nAssistant: <r>" for every turn, oldest first, then the new query
PromptPieces(h, q) ==
  [i \in 1 .. Len(h) |-> << "User: " >> \o h[i][1] \o << "\nAssistant: " >> \o h[i][2]]
    \o << q >>

\* The bridge of call p has run the script past the assembly of the prompt
PastPrompt(p) == query[p] # EmptyText /\ pc[p] \notin { "idle", "py_run" }

\* C16: for every non-empty history snapshot and every query the prompt is
\* assembled and holds the block of every turn, oldest first, with the turn's
\* query and response whole, and after them the new query.
C16_PromptHoldsEveryTurn ==
  \A p \in Calls :
    (PastPrompt(p) /\ history[p] # << >>) =>
      /\ IsSome(full_prompt[p])
      /\ InOrderFrom(Unwrap(full_prompt[p]), PromptPieces(history[p], query[p]), 1)

\* ---------------------------------------------------------------- C17
\* C17: for every query, with an empty history snapshot the prompt is the
\* query itself; the template is applied exactly when the snapshot holds a turn.
C17_EmptyHistoryRawQuery ==
  \A p \in Calls :
    PastPrompt(p) =>
      /\ IsSome(full_prompt[p])
      /\ history[p] = << >> => Unwrap(full_prompt[p]) = query[p]
      /\ history[p] # << >> => Head(Unwrap(full_prompt[p])) = "Previous conversation:\n"

\* ---------------------------------------------------------------- C18
\* Call p's query was submitted before call q's (calls are numbered in the
\* order of their invocation)
SubmittedBefore(p, q) == p < q /\ pc[p] # "idle" /\ pc[q] # "idle"

\* Turn i of the stored history is the turn that call p appended
TurnOf(p, i) ==
  /\ pc[p] = "done" /\ ret[p].ok /\ query[p] # EmptyText
  /\ i \in DOMAIN conversation_history
  /\ conversation_history[i] = << query[p], result[p] >>

\* Every stored turn has one owner and every owner one turn: the calls that
\* appended since the last clear gave different queries
OwnersKnown ==
  /\ \A i \in DOMAIN conversation_history :
       Cardinality({ p \in Calls : TurnOf(p, i) }) = 1
  /\ \A p \in Calls :
       Cardinality({ i \in DOMAIN conversation_history : TurnOf(p, i) }) <= 1

\* C18 as claimed: of any two turns in the history, the one whose query was
\* submitted earlier comes first, in every interleaving.
C18_SubmissionOrder ==
  OwnersKnown =>
    \A i, j \in DOMAIN conversation_history :
      \A p, q \in Calls :
        (TurnOf(p, i) /\ TurnOf(q, j) /\ SubmittedBefore(p, q)) => i < j

\* C18: the stored history is append-only between two clears: a step either
\* leaves it as it is, or empties it (clear_conversation), or appends one turn
\* after the turns already stored, which stay as they are; the turns are in
\* the order in which their calls completed, and the turn of a call whose
\* snapshot already held another turn comes after that turn.
C18_AppendOnlyCompletionOrder ==
  /\ [][\/ conversation_history' = conversation_history
        \/ conversation_history' = << >>
        \/ /\ Len(conversation_history') = Len(conversation_history) + 1
           /\ SubSeq(conversation_history', 1, Len(conversation_history)) = conversation_history
           /\ \E p \in Calls :
                /\ pc[p] = "push" /\ pc'[p] = "done"
                /\ conversation_history'[Len(conversation_history')] = << query[p], result[p] >>]_vars
  /\ [](OwnersKnown =>
          \A i, j \in DOMAIN conversation_history :
            \A p, q \in Calls :
              (/\ TurnOf(p, i) /\ TurnOf(q, j) /\ p # q
               /\ \E k \in DOMAIN history[q] : history[q][k] = conversation_history[i])
                => i < j)

\* Two concurrent calls have both stored their turn, the one submitted later first
C18_Witness ==
  /\ OwnersKnown
  /\ \E p, q \in Calls :
       /\ SubmittedBefore(p, q)
       /\ TurnOf(q, 1) /\ TurnOf(p, 2)

\* ---------------------------------------------------------------- C19
RECURSIVE SumToolCalls(_)
\* Tool invocations carried by the chunks cs, summed
SumToolCalls(cs) ==
  IF cs = << >> THEN 0
  ELSE (IF Head(cs).tool_calls = None THEN 0 ELSE Head(cs).tool_calls[1])
         + SumToolCalls(Tail(cs))

RECURSIVE TextsOf(_)
\* The non-empty texts of the chunks that the raw-chunk records rs dump
TextsOf(rs) ==
  IF rs = << >> THEN << >>
  ELSE LET t == Head(rs).detail.chunk.text IN
       (IF t # None /\ t[1] # << >> THEN << t[1] >> ELSE << >>) \o TextsOf(Tail(rs))

IsStreamingComplete(rec) == rec.kind = "STREAMING COMPLETE"

\* C19: a stream that completed without exception left one raw-chunk record
\* per delivered chunk, with or without text, in the order of delivery, and
\* the tool-call count of its completion record is the sum of the tool
\* invocations of the delivered chunks; at every moment the accumulator holds
\* only texts of chunks whose raw record is already written.
C19_OneRawRecordPerChunk ==
  \A p \in Calls :
    LET raws == SelectSeq(log[p], IsRawChunk)
        ends == SelectSeq(log[p], IsStreamingComplete) IN
    /\ result_parts[p] = TextsOf(raws)
    /\ Completed(p) =>
         /\ Len(raws) = Len(delivered[p])
         /\ \A k \in DOMAIN raws : raws[k].detail.chunk = delivered[p][k]
         /\ Len(ends) = 1
         /\ ends[1].detail = SumToolCalls(delivered[p])
         /\ tool_call_count[p] = SumToolCalls(delivered[p])

\* A completed stream of three chunks, one of them without text, with tool calls
C19_Witness ==
  \E p \in Calls :
    /\ Completed(p)
    /\ Len(delivered[p]) = 3
    /\ \E k \in DOMAIN delivered[p] : ~Truthy(delivered[p][k].text)
    /\ \E k \in DOMAIN delivered[p] : Truthy(delivered[p][k].text)
    /\ tool_call_count[p] >= 4

\* ---------------------------------------------------------------- C21
\* C21: under fairness, a run_dba_query call whose bridge script has started
\* either waits for its stream or goes on, and a call whose stream has ended
\* (exhausted, or by an exception caught in run_query) eventually returns Ok
\* to the host with every session resource it entered released.
C21_EndedStreamReturns ==
  \A p \in Calls :
    /\ (pc[p] = "py_run") ~> (pc[p] \in { "stream", "log_result", "done" })
    /\ (pc[p] = "log_result")
         ~> (pc[p] = "done" /\ ret[p].ok /\ released[p] = ExitOrder(entered[p]))

\* ---------------------------------------------------------------- C22
\* s is a prefix of t
IsPrefix(s, t) == Len(s) <= Len(t) /\ SubSeq(t, 1, Len(s)) = s

\* the step of commands.rs:69 by which call p appends its turn
Appends(p) == pc[p] = "push" /\ pc'[p] = "done"

\* C22: when a run_dba_query call appends its turn, the history snapshot its
\* prompt was built from is a prefix of the history the turn is appended to,
\* whatever run_dba_query calls and clear_conversation ran in between.
C22_SnapshotIsPrefixAtAppend ==
  [][\A p \in Calls : Appends(p) => IsPrefix(history[p], conversation_history)]_vars

\* ---------------------------------------------------------------- C23
\* a step of connect_database by call p
ConnectMoves(p) ==
  /\ pc'[p] # pc[p]
  /\ pc'[p] = "connect_server" \/ pc[p] \in { "connect_server", "connect_database" }

\* a step of get_connection_status by call p
StatusMoves(p) ==
  /\ pc'[p] # pc[p]
  /\ pc'[p] = "status_server" \/ pc[p] \in { "status_server", "status_database" }

\* the stored connection fields are nested: database set => server set => flag
ConnectionNested ==
  /\ ~is_connected => (server_name = None /\ database_name = None)
  /\ IsSome(database_name) => IsSome(server_name)
  /\ IsSome(server_name) => is_connected

\* C23: in every reachable state is_connected = false implies that no server
\* and no database is stored, a stored database implies a stored server and a
\* stored server implies is_connected = true; is_connected never goes back to
\* false; only steps of connect_database change the three connection fields
\* (run_dba_query, clear_conversation and get_connection_status leave them
\* alone), and the steps of connect_database and get_connection_status leave
\* the history unchanged.
C23_ConnectionFields ==
  /\ []ConnectionNested
  /\ [][/\ is_connected => is_connected'
        /\ conn' # conn => \E p \in Calls : ConnectMoves(p)
        /\ (\E p \in Calls : ConnectMoves(p) \/ StatusMoves(p))
             => conversation_history' = conversation_history]_vars

\* A connect_database has written the flag and the server and not yet the
\* database, next to a stored turn of a run_dba_query that has returned
C23_Witness ==
  /\ is_connected /\ IsSome(server_name) /\ database_name = None
  /\ \E p \in Calls : pc[p] = "connect_database"
  /\ \E q \in Calls : pc[q] = "done" /\ ret[q].ok /\ query[q] \in Queries
  /\ conversation_history # << >>

====
